---- MODULE Spec2Model ----
(***************************************************************************)
(* Feedback ingestion and notification dispatch pipeline.                  *)
(*                                                                         *)
(*   netlify/functions/feedback/index.ts           the ingestion handler   *)
(*   netlify/functions/send-notification/index.ts  the dispatch handler    *)
(*                                                                         *)
(* Every handler is an async function: one action of the model is the code *)
(* a handler runs between two awaits, so that concurrent invocations       *)
(* interleave exactly at the awaits.                                       *)
(***************************************************************************)
EXTENDS Integers, Sequences, FiniteSets, TLC

\* Concurrent invocations of the ingestion handler.
MaxRequests == 2

Req == 1..MaxRequests

\* Rows of notification_settings for one form.
MaxRecipients == 3

\* the submissions of the widget that can be awaiting their answer at once
MaxInFlight == 2

\* the reset timers of the widget that can be pending at once
MaxTimeouts == 2

\* recipient addresses of form "f1"; address 0 belongs to form "f3"
Recipient == 1..MaxRecipients

----------------------------------------------------------------------------
\* URLs and the origin validator

Url(scheme, host, port) == [scheme |-> scheme, host |-> host, port |-> port]

ExampleCom    == Url("https", "example.com", 0)
ExampleCom443 == Url("https", "example.com", 443)
EvilCom       == Url("https", "evil.com", 0)
AnyOrigin     == Url("*", "*", 0)

OtherCom      == Url("https", "other.com", 0)

\* The forms table: form id -> registered url. "f2" is no registered form.
forms ==
  [id \in {"f1", "f3"} |-> [url |-> IF id = "f1" THEN ExampleCom ELSE OtherCom]]

WellFormed(u) == u.scheme \in {"http", "https"}

DefaultPort(scheme) == IF scheme = "https" THEN 443 ELSE 80

\* scheme + host + port, the port made explicit
Normalize(u) ==
  [u EXCEPT !.port = IF u.port = 0 THEN DefaultPort(u.scheme) ELSE u.port]

\* ./validation is not part of the sources: the contract of section 4.1.
isValidOrigin(origin, url) ==
  /\ WellFormed(origin)
  /\ WellFormed(url)
  /\ Normalize(origin) = Normalize(url)

----------------------------------------------------------------------------
\* Requests

NoFields == [k \in {} |-> ""]

Methods == {"POST", "OPTIONS", "GET"}

\* event.headers: no origin header, or one under either spelling: an origin
\* equivalent to the url of form "f1" and one that is not
HeaderSets ==
  { NoFields,
    [Origin |-> ExampleCom443],
    [origin |-> EvilCom] }

\* message texts, as sequences of characters
MessageValues == { <<>>, <<" ">>, <<" ", "a">> }

\* the JSON objects a body can hold: formId and message are each optional
JsonObjects ==
  { NoFields, [formId |-> "f1"], [message |-> <<" ", "a">>],
    [formId |-> "f2", message |-> <<" ", "a">>] }
    \cup {[formId |-> "f1", message |-> m] : m \in MessageValues}

\* event.body: null, a text that is no JSON, or the text of a JSON object
Bodies ==
  { [kind |-> "null", value |-> NoFields],
    [kind |-> "invalid", value |-> NoFields] }
    \cup {[kind |-> "json", value |-> o] : o \in JsonObjects}

\* The requests: every body under POST; under the other methods no body, a
\* text that is no JSON or the body of a valid submission.
Events ==
  { e \in [httpMethod : Methods, headers : HeaderSets, body : Bodies] :
      \/ e.httpMethod = "POST"
      \/ e.body.kind \in {"null", "invalid"}
      \/ e.body.kind = "json" /\ e.body.value = [formId |-> "f1", message |-> <<" ", "a">>] }

NoEvent ==
  [httpMethod |-> "", headers |-> NoFields,
   body |-> [kind |-> "null", value |-> NoFields]]

\* const origin = event.headers.origin || event.headers.Origin
HasOrigin(headers) == DOMAIN headers # {}

OriginOf(headers) ==
  IF "origin" \in DOMAIN headers THEN headers.origin
  ELSE IF "Origin" \in DOMAIN headers THEN headers.Origin
  ELSE AnyOrigin

getCorsHeaders(headers) ==
  [allowOrigin |-> OriginOf(headers), allowMethods |-> "POST, OPTIONS"]

\* JSON.parse(event.body || '{}'): throws on a text that is no JSON
Parses(body) == body.kind # "invalid"

JSONparse(body) == IF body.kind = "json" THEN body.value ELSE NoFields

RECURSIVE TrimStart(_)
TrimStart(s) ==
  IF s # <<>> /\ Head(s) = " " THEN TrimStart(Tail(s)) ELSE s

RECURSIVE TrimEnd(_)
TrimEnd(s) ==
  IF s # <<>> /\ s[Len(s)] = " " THEN TrimEnd(SubSeq(s, 1, Len(s) - 1)) ELSE s

trim(s) == TrimEnd(TrimStart(s))

\* !formId
NoFormId(o) == "formId" \notin DOMAIN o \/ o.formId = ""

\* the check without the trim
NoMessage_NoTrim(o) == "message" \notin DOMAIN o \/ o.message = <<>>

\* !message?.trim()
NoMessage(o) == "message" \notin DOMAIN o \/ trim(o.message) = <<>>

\* if (!formId || !message?.trim())
InvalidRequestData(o) == NoFormId(o) \/ NoMessage(o)

----------------------------------------------------------------------------
\* Responses of the ingestion handler

Resp(status, headers, body) ==
  [statusCode |-> status, headers |-> getCorsHeaders(headers), body |-> body]

NoResponse ==
  [statusCode |-> 0, headers |-> getCorsHeaders(NoFields), body |-> ""]

Preflight(h)        == Resp(204, h, "")
Success(h)          == Resp(200, h, "{success:true}")
InvalidRequest(h)   == Resp(400, h, "{error:'Invalid request data'}")
OriginNotAllowed(h) == Resp(403, h, "{error:'Origin not allowed'}")
MethodNotAllowed(h) == Resp(405, h, "{error:'Method not allowed'}")
InternalError(h)    == Resp(500, h, "{error:'Internal server error'}")

----------------------------------------------------------------------------
\* State

VARIABLES
  event,        \* event[r]: the request invocation r handles
  pc,           \* pc[r]: the await invocation r is suspended at
  response,     \* response[r]: what invocation r returned to its caller
  feedback,     \* the feedback table, in insertion order
  createdBy,    \* createdBy[r]: the rows of feedback that invocation r inserted
  formLookups,  \* formLookups[r]: queries on the forms table by invocation r
  formAnswer,   \* formAnswer[r]: what the store answered to r's form lookup
  insertResult, \* insertResult[r]: what the store answered to r's insert
  notify,       \* notify[r]: state of r's request to the notification endpoint
  posted,       \* posted[r]: the bodies r posted to the notification endpoint
  notification_settings, \* the notification_settings table
  notification, \* the request the dispatch handler is invoked with
  dpc,          \* the await the dispatch handler is suspended at
  dresponse,    \* what the dispatch handler returned
  dformAnswer,  \* what the store answered to the dispatch handler's form lookup
  settingsAnswer, \* what the store answered to the settings query
  emailPromises, \* recipient -> state of the send issued to it
  modalOpen,    \* the widget: modal and backdrop carry the class 'open'
  textarea,     \* the widget: textarea.value
  formHidden,   \* the widget: the form carries the class 'hidden'
  successOpen,  \* the widget: the success panel carries the class 'open'
  disabled,     \* the widget: submitButton.disabled
  submitText,   \* the widget: the label of the submit button
  errorShown,   \* the widget: errorElement.style.display = 'block'
  timeouts,     \* the widget: reset timers set and not yet fired
  inFlight      \* the widget: submitFeedback calls awaiting their answer

ingestVars ==
  <<event, pc, response, feedback, createdBy, formLookups, formAnswer,
    insertResult, notify, posted>>

dispatchVars ==
  <<notification, dpc, dresponse, dformAnswer, settingsAnswer, emailPromises>>

widgetVars ==
  <<modalOpen, textarea, formHidden, successOpen, disabled, submitText,
    errorShown, timeouts, inFlight>>

vars == <<ingestVars, dispatchVars, notification_settings, widgetVars>>

\* a notification_settings table: the rows of form "f1", each enabled or
\* not, and one enabled row of form "f3"
Settings(enabled) ==
  {[form_id |-> "f1", email |-> i, enabled |-> enabled[i]] : i \in Recipient}
    \cup {[form_id |-> "f3", email |-> 0, enabled |-> TRUE]}

NoDispatchEvent ==
  [httpMethod |-> "", bearer |-> FALSE,
   body |-> [kind |-> "null", value |-> NoFields]]

NoDispatchResponse == [statusCode |-> 0, body |-> ""]

InitIngest ==
  /\ event = [r \in Req |-> NoEvent]
  /\ pc = [r \in Req |-> "idle"]
  /\ response = [r \in Req |-> NoResponse]
  /\ feedback = <<>>
  /\ createdBy = [r \in Req |-> {}]
  /\ formLookups = [r \in Req |-> 0]
  /\ formAnswer = [r \in Req |-> "unasked"]
  /\ insertResult = [r \in Req |-> "none"]
  /\ notify = [r \in Req |-> "none"]
  /\ posted = [r \in Req |-> <<>>]

InitDispatcher ==
  /\ notification = NoDispatchEvent
  /\ dpc = "idle"
  /\ dresponse = NoDispatchResponse
  /\ dformAnswer = "unasked"
  /\ settingsAnswer = "unasked"
  /\ emailPromises = NoFields

\* createModal() and the style sheet: nothing open, the form shown, the
\* button enabled and labelled MESSAGES.labels.submit
InitWidget ==
  /\ modalOpen = FALSE
  /\ textarea = <<>>
  /\ formHidden = FALSE
  /\ successOpen = FALSE
  /\ disabled = FALSE
  /\ submitText = "Send Feedback"
  /\ errorShown = FALSE
  /\ timeouts = 0
  /\ inFlight = 0

Init ==
  /\ InitIngest
  /\ InitDispatcher
  /\ InitWidget
  /\ notification_settings = Settings([i \in Recipient |-> TRUE])

----------------------------------------------------------------------------
\* The ingestion handler

\* return <a response>
Return(r, resp) ==
  /\ response' = [response EXCEPT ![r] = resp]
  /\ pc' = [pc EXCEPT ![r] = "done"]

\* the origin check run on every request
ChecksOrigin_Always(headers) == TRUE

\* if (origin): whether the origin check runs at all
ChecksOrigin(headers) == HasOrigin(headers)

\* the handler without its preflight branch
IsPreflight_Never(e) == FALSE

\* if (event.httpMethod === 'OPTIONS')
IsPreflight(e) == e.httpMethod = "OPTIONS"

\* the handler without its method check
NotPost_Unchecked(e) == FALSE

\* if (event.httpMethod !== 'POST')
NotPost(e) == e.httpMethod # "POST"

\* The handler from its entry to its first await: the preflight and method
\* checks, the parse of the body and the check of its fields. It suspends on
\* the form lookup of validateFormId when an origin is declared, and on the
\* insert otherwise. Invocations are numbered in their order of arrival.
Receive(r, e) ==
  /\ pc[r] = "idle"
  /\ \A q \in Req : q < r => pc[q] # "idle"
  /\ event' = [event EXCEPT ![r] = e]
  /\ UNCHANGED <<feedback, createdBy, formAnswer, insertResult, notify, posted>>
  /\ UNCHANGED <<dispatchVars, notification_settings, widgetVars>>
  /\ IF IsPreflight(e)
       THEN Return(r, Preflight(e.headers)) /\ UNCHANGED formLookups
     ELSE IF NotPost(e)
       THEN Return(r, MethodNotAllowed(e.headers)) /\ UNCHANGED formLookups
     ELSE IF ~Parses(e.body)
       THEN Return(r, InternalError(e.headers)) /\ UNCHANGED formLookups
     ELSE IF InvalidRequestData(JSONparse(e.body))
       THEN Return(r, InvalidRequest(e.headers)) /\ UNCHANGED formLookups
     ELSE IF ChecksOrigin(e.headers)
       THEN /\ formLookups' = [formLookups EXCEPT ![r] = @ + 1]
            /\ pc' = [pc EXCEPT ![r] = "validateFormId"]
            /\ UNCHANGED response
     ELSE /\ pc' = [pc EXCEPT ![r] = "insert"]
          /\ UNCHANGED <<response, formLookups>>

\* What the forms query can answer for a form id: the row or no row, or the
\* query throws.
LookupAnswers(formId) ==
  (IF formId \in DOMAIN forms THEN {"row"} ELSE {"absent"}) \cup {"throws"}

\* validateFormId without the comparison of the origin
IsValid_AnyOrigin(formId, origin, answer) == answer = "row"

\* validateFormId with a catch that returns true
IsValid_FailOpen(formId, origin, answer) ==
  \/ answer = "throws"
  \/ answer = "row" /\ isValidOrigin(origin, forms[formId].url)

\* validateFormId's result once its query has settled
IsValid(formId, origin, answer) ==
  /\ answer = "row"
  /\ isValidOrigin(origin, forms[formId].url)

\* The form lookup settles: validateFormId returns, and the handler either
\* answers 403 or goes on to the insert.
ValidateFormId(r, answer) ==
  /\ pc[r] = "validateFormId"
  /\ LET formId == JSONparse(event[r].body).formId
         origin == OriginOf(event[r].headers)
     IN /\ answer \in LookupAnswers(formId)
        /\ formAnswer' = [formAnswer EXCEPT ![r] = answer]
        /\ IF ~IsValid(formId, origin, answer)
             THEN Return(r, OriginNotAllowed(event[r].headers))
             ELSE /\ pc' = [pc EXCEPT ![r] = "insert"]
                  /\ UNCHANGED response
  /\ UNCHANGED <<event, feedback, createdBy, formLookups, insertResult,
                 notify, posted>>
  /\ UNCHANGED <<dispatchVars, notification_settings, widgetVars>>

\* the insert error left unchecked
InsertThrows_Never(answer) == FALSE

\* if (insertError) throw insertError
InsertThrows(answer) == answer = "error"

\* the row with form_id taken from a field the body does not have
FeedbackRow_WrongForm(o, now) ==
  [form_id |-> "", message |-> o.message, created_at |-> now]

\* The row the handler inserts; created_at is assigned by the store.
FeedbackRow(o, now) ==
  [form_id |-> o.formId, message |-> o.message, created_at |-> now]

\* notificationData
NotificationData(o, rows) ==
  [formId |-> o.formId, message |-> o.message,
   created_at |-> rows[1].created_at]

\* an insert that leaves out a row the table already holds
insert_Dedup(table, row) ==
  IF \E i \in 1..Len(table) :
       table[i].form_id = row.form_id /\ table[i].message = row.message
    THEN table
    ELSE Append(table, row)

\* an insert that replaces the rows of the same form
insert_Replace(table, row) ==
  Append(SelectSeq(table, LAMBDA t : t.form_id # row.form_id), row)

\* .from('feedback').insert([row]): the table with the row added
insert(table, row) == Append(table, row)

\* What the store answers to the insert of one row: an error, or success with
\* data null (no representation asked for) or the inserted rows.
InsertAnswers == {"error", "null", "rows"}

\* The insert settles. On an error the handler throws into its catch and
\* answers 500. Otherwise the row is stored; with data the handler posts the
\* notification and suspends on it, without data it returns the 200.
Insert(r, answer) ==
  /\ pc[r] = "insert"
  /\ answer \in InsertAnswers
  /\ insertResult' = [insertResult EXCEPT ![r] = answer]
  /\ UNCHANGED <<event, formLookups, formAnswer>>
  /\ UNCHANGED <<dispatchVars, notification_settings, widgetVars>>
  /\ LET o == JSONparse(event[r].body)
         row == FeedbackRow(o, Len(feedback) + 1)
     IN IF InsertThrows(answer)
          THEN /\ Return(r, InternalError(event[r].headers))
               /\ UNCHANGED <<feedback, createdBy, notify, posted>>
          ELSE /\ feedback' = insert(feedback, row)
               /\ createdBy' = [createdBy EXCEPT ![r] = @ \cup {Len(feedback) + 1}]
               /\ IF answer = "rows"
                    THEN /\ posted' = [posted EXCEPT
                                ![r] = Append(@, NotificationData(o, <<row>>))]
                         /\ notify' = [notify EXCEPT ![r] = "pending"]
                         /\ pc' = [pc EXCEPT ![r] = "fetch"]
                         /\ UNCHANGED response
                    ELSE /\ Return(r, Success(event[r].headers))
                         /\ UNCHANGED <<notify, posted>>

\* How the request to the notification endpoint can settle: a response of the
\* endpoint, or a rejection at transport level.
FetchOutcomes == {"200", "404", "500", "rejected"}

\* the chain without its .catch(...): it rejects unless the response is ok
ChainFulfills_NoCatch(outcome) == outcome = "200"

\* .then(...) throws on a response that is not ok; .catch(...) logs whatever
\* was thrown or rejected: the awaited chain always fulfills.
ChainFulfills(outcome) == TRUE

\* The request to the notification endpoint settles: the endpoint answers or
\* the request fails. The awaited chain settles with it, and the handler logs
\* and returns the response it built after the insert.
FetchSettles(r, outcome) ==
  /\ pc[r] = "fetch"
  /\ notify[r] = "pending"
  /\ outcome \in FetchOutcomes
  /\ notify' = [notify EXCEPT ![r] = outcome]
  /\ IF ChainFulfills(outcome)
       THEN Return(r, Success(event[r].headers))
       ELSE Return(r, InternalError(event[r].headers))
  /\ UNCHANGED <<event, feedback, createdBy, formLookups, formAnswer,
                 insertResult, posted>>
  /\ UNCHANGED <<dispatchVars, notification_settings, widgetVars>>

Next ==
  \/ \E r \in Req, e \in Events : Receive(r, e)
  \/ \E r \in Req, a \in {"row", "absent", "throws"} : ValidateFormId(r, a)
  \/ \E r \in Req, a \in InsertAnswers : Insert(r, a)
  \/ \E r \in Req, o \in FetchOutcomes : FetchSettles(r, o)

Spec == Init /\ [][Next]_vars

----------------------------------------------------------------------------
\* The dispatch handler (the notification endpoint). It keeps no state
\* between invocations and only reads the store: one invocation is modelled.

\* The requests: the bearer credential of the ingestion handler present or
\* not, the payload of a form with settings ("f1", "f3"), of no form ("f2"),
\* no payload, or a text that is no JSON.
DispatchEvents ==
  [httpMethod : {"POST", "GET"},
   bearer : BOOLEAN,
   body : { [kind |-> "null", value |-> NoFields],
            [kind |-> "invalid", value |-> NoFields] }
          \cup {[kind |-> "json",
                 value |-> [formId |-> f, message |-> <<" ", "a">>]] :
                  f \in {"f1", "f2", "f3"}}]

DResp(status, body) == [statusCode |-> status, body |-> body]

DReturn(resp) ==
  /\ dresponse' = resp
  /\ dpc' = "done"

\* the handler without its try/catch: the error leaves the handler
Failed_Uncaught == DResp(-1, "unhandled rejection")

\* catch (error) { ... return 500 }
Failed == DResp(500, "{error:'Failed to send notification'}")

\* payload.formId, undefined in a payload that has none
PayloadFormId(body) ==
  IF "formId" \in DOMAIN JSONparse(body) THEN JSONparse(body).formId ELSE ""

\* The handler from its entry to its first await: the method check and the
\* parse of the payload; it suspends on the form lookup.
DispatchReceive(e) ==
  /\ dpc = "idle"
  /\ notification' = e
  /\ IF e.httpMethod # "POST"
       THEN DReturn(DResp(405, "Method Not Allowed"))
     ELSE IF ~Parses(e.body)
       THEN DReturn(Failed)
     ELSE dpc' = "forms" /\ UNCHANGED dresponse
  /\ UNCHANGED <<dformAnswer, settingsAnswer, emailPromises>>
  /\ UNCHANGED <<ingestVars, notification_settings, widgetVars>>

\* the handler without its check of the form
NoForm_Unchecked(answer) == FALSE

\* if (!form)
NoForm(answer) == answer = "absent"

\* The form lookup settles: without a form the handler answers 404, and it
\* goes on to the settings query otherwise.
DispatchFormLookup(answer) ==
  /\ dpc = "forms"
  /\ answer \in LookupAnswers(PayloadFormId(notification.body))
  /\ dformAnswer' = answer
  /\ IF answer = "throws"
       THEN DReturn(Failed)
     ELSE IF NoForm(answer)
       THEN DReturn(DResp(404, "{error:'Form not found'}"))
     ELSE dpc' = "settings" /\ UNCHANGED dresponse
  /\ UNCHANGED <<notification, settingsAnswer, emailPromises>>
  /\ UNCHANGED <<ingestVars, notification_settings, widgetVars>>

\* the query without .eq('form_id', formId)
EnabledRecipients_AnyForm(formId) ==
  {row.email : row \in {s \in notification_settings : s.enabled}}

\* the query without .eq('enabled', true)
EnabledRecipients_Disabled(formId) ==
  {row.email : row \in {s \in notification_settings : s.form_id = formId}}

\* .from('notification_settings').select('email')
\*   .eq('form_id', formId).eq('enabled', true)
EnabledRecipients(formId) ==
  {row.email : row \in {s \in notification_settings :
                          s.form_id = formId /\ s.enabled}}

\* a loop that stops at the first send: one send only
SendTo_FirstOnly(recipients) ==
  IF recipients = {} THEN {}
  ELSE {CHOOSE e \in recipients : \A o \in recipients : e <= o}

\* settings.map(({ email }) => fetch(...)): one send per row, all of them
\* issued before the handler awaits any
SendTo(recipients) == recipients

\* The settings query settles, with the rows, with data null (an error of the
\* store) or by throwing. Without rows the handler answers 200; otherwise it
\* issues a send to every row and suspends on Promise.all.
DispatchSettings(answer) ==
  /\ dpc = "settings"
  /\ answer \in {"rows", "null", "throws"}
  /\ settingsAnswer' = answer
  /\ LET settings == IF answer = "rows"
                       THEN EnabledRecipients(PayloadFormId(notification.body))
                       ELSE {}
     IN IF answer = "throws"
          THEN DReturn(Failed) /\ UNCHANGED emailPromises
        ELSE IF settings = {}
          THEN /\ DReturn(DResp(200, "{message:'No notification settings found'}"))
               /\ UNCHANGED emailPromises
        ELSE /\ emailPromises' = [e \in SendTo(settings) |-> "pending"]
             /\ dpc' = "all"
             /\ UNCHANGED dresponse
  /\ UNCHANGED <<notification, dformAnswer>>
  /\ UNCHANGED <<ingestVars, notification_settings, widgetVars>>

\* How a send settles: fetch fulfills with whatever response the email
\* function gives, ok or not, and rejects on a failure of the transport.
SendOutcomes == {"ok", "not ok", "rejected"}

\* One send settles; the sends go on settling after the handler returned.
SendSettles(e, outcome) ==
  /\ e \in DOMAIN emailPromises
  /\ emailPromises[e] = "pending"
  /\ outcome \in SendOutcomes
  /\ emailPromises' = [emailPromises EXCEPT ![e] = outcome]
  /\ UNCHANGED <<notification, dpc, dresponse, dformAnswer, settingsAnswer>>
  /\ UNCHANGED <<ingestVars, notification_settings, widgetVars>>

\* Promise.all(emailPromises)
AllFulfilled(promises) ==
  \A e \in DOMAIN promises : promises[e] \in {"ok", "not ok"}

AllRejects(promises) ==
  \E e \in DOMAIN promises : promises[e] = "rejected"

\* await Promise.all(emailPromises) settles: it fulfills once every send has
\* fulfilled and the handler answers 200; it rejects as soon as one send has
\* rejected and the handler answers 500 from its catch.
AwaitAll ==
  /\ dpc = "all"
  /\ \/ AllRejects(emailPromises) /\ DReturn(Failed)
     \/ /\ ~AllRejects(emailPromises)
        /\ AllFulfilled(emailPromises)
        /\ DReturn(DResp(200, "{success:true}"))
  /\ UNCHANGED <<notification, dformAnswer, settingsAnswer, emailPromises>>
  /\ UNCHANGED <<ingestVars, notification_settings, widgetVars>>

InitDispatch ==
  /\ InitIngest
  /\ InitDispatcher
  /\ InitWidget
  /\ notification_settings \in {Settings(en) : en \in [Recipient -> BOOLEAN]}

NextDispatch ==
  \/ \E e \in DispatchEvents : DispatchReceive(e)
  \/ \E a \in {"row", "absent", "throws"} : DispatchFormLookup(a)
  \/ \E a \in {"rows", "null", "throws"} : DispatchSettings(a)
  \/ \E e \in Recipient \cup {0}, o \in SendOutcomes : SendSettles(e, o)
  \/ AwaitAll

SpecDispatch == InitDispatch /\ [][NextDispatch]_vars

-----------------------------------------------------------------------------
\* The browser widget

\* what a click in the page can reach: an element that is displayed, and a
\* button only while it is not disabled
FormDisplayed == modalOpen /\ ~formHidden
SuccessDisplayed == modalOpen /\ successOpen

\* trigger click: the modal and the backdrop open
TriggerClick ==
  /\ modalOpen' = TRUE
  /\ UNCHANGED <<textarea, formHidden, successOpen, disabled, submitText,
                 errorShown, timeouts, inFlight>>
  /\ UNCHANGED <<ingestVars, dispatchVars, notification_settings>>

\* the user edits the text of the textarea
Type(v) ==
  /\ FormDisplayed
  /\ v \in MessageValues
  /\ textarea' = v
  /\ UNCHANGED <<modalOpen, formHidden, successOpen, disabled, submitText,
                 errorShown, timeouts, inFlight>>
  /\ UNCHANGED <<ingestVars, dispatchVars, notification_settings>>

\* closeModal: the modal and the backdrop close and a reset is set to run
\* 200 ms later
closeModal ==
  /\ timeouts < MaxTimeouts
  /\ modalOpen' = FALSE
  /\ timeouts' = timeouts + 1
  /\ UNCHANGED <<textarea, formHidden, successOpen, disabled, submitText,
                 errorShown, inFlight>>
  /\ UNCHANGED <<ingestVars, dispatchVars, notification_settings>>

\* click on Cancel (in the form) or on Close (in the success panel)
CloseClick ==
  /\ FormDisplayed \/ SuccessDisplayed
  /\ closeModal

\* click on the backdrop
BackdropClick ==
  /\ modalOpen
  /\ closeModal

\* the callback of setTimeout(..., 200) runs
Timeout ==
  /\ timeouts > 0
  /\ timeouts' = timeouts - 1
  /\ textarea' = <<>>
  /\ formHidden' = FALSE
  /\ successOpen' = FALSE
  /\ disabled' = FALSE
  /\ submitText' = "Send Feedback"
  /\ UNCHANGED <<modalOpen, errorShown, inFlight>>
  /\ UNCHANGED <<ingestVars, dispatchVars, notification_settings>>

\* click on the submit button, up to the await of submitFeedback: nothing
\* happens on a blank message; otherwise the button is disabled and the
\* request leaves
SubmitClick ==
  /\ FormDisplayed
  /\ ~disabled
  /\ inFlight < MaxInFlight
  /\ IF trim(textarea) = <<>>
       THEN UNCHANGED <<disabled, submitText, inFlight>>
       ELSE /\ disabled' = TRUE
            /\ submitText' = "Sending Feedback..."
            /\ inFlight' = inFlight + 1
  /\ UNCHANGED <<modalOpen, textarea, formHidden, successOpen, errorShown,
                 timeouts>>
  /\ UNCHANGED <<ingestVars, dispatchVars, notification_settings>>

\* submitFeedback fulfills: the success panel replaces the form
SubmitFulfills ==
  /\ inFlight > 0
  /\ inFlight' = inFlight - 1
  /\ formHidden' = TRUE
  /\ successOpen' = TRUE
  /\ UNCHANGED <<modalOpen, textarea, disabled, submitText, errorShown,
                 timeouts>>
  /\ UNCHANGED <<ingestVars, dispatchVars, notification_settings>>

\* submitFeedback rejects (the request failed or the answer was not ok): the
\* error is shown and the button enabled again
SubmitRejects ==
  /\ inFlight > 0
  /\ inFlight' = inFlight - 1
  /\ errorShown' = TRUE
  /\ disabled' = FALSE
  /\ submitText' = "Send Feedback"
  /\ UNCHANGED <<modalOpen, textarea, formHidden, successOpen, timeouts>>
  /\ UNCHANGED <<ingestVars, dispatchVars, notification_settings>>

NextWidget ==
  \/ TriggerClick
  \/ \E v \in MessageValues : Type(v)
  \/ CloseClick
  \/ BackdropClick
  \/ Timeout
  \/ SubmitClick
  \/ SubmitFulfills
  \/ SubmitRejects

SpecWidget == Init /\ [][NextWidget]_vars

----------------------------------------------------------------------------
\* Properties of the ingestion handler

Started(r) == pc[r] # "idle"
Done(r) == pc[r] = "done"
IsPost(r) == event[r].httpMethod = "POST"

\* the body is null or the text of a JSON object
ParsedBody(r) == event[r].body.kind \in {"null", "json"}
BodyOf(r) == event[r].body.value

\* a text of spaces only, the empty text included
Blank(m) == \A i \in 1..Len(m) : m[i] = " "

FormIdMissing(o) == "formId" \notin DOMAIN o
MessageMissingOrBlank(o) == "message" \notin DOMAIN o \/ Blank(o.message)

\* a POST whose body carries a formId and a message that is not blank
ValidSubmission(r) ==
  /\ Started(r)
  /\ IsPost(r)
  /\ event[r].body.kind = "json"
  /\ ~FormIdMissing(BodyOf(r))
  /\ ~MessageMissingOrBlank(BodyOf(r))

DeclaresOrigin(r) ==
  "origin" \in DOMAIN event[r].headers \/ "Origin" \in DOMAIN event[r].headers

DeclaredOrigin(r) ==
  IF "origin" \in DOMAIN event[r].headers
    THEN event[r].headers.origin
    ELSE event[r].headers.Origin

Registered(r) == BodyOf(r).formId \in DOMAIN forms

\* the validator accepts the declared origin for the form's registered url
OriginAccepted(r) ==
  /\ DeclaresOrigin(r)
  /\ Registered(r)
  /\ isValidOrigin(DeclaredOrigin(r), forms[BodyOf(r).formId].url)

InsertSucceeded(r) == insertResult[r] \in {"null", "rows"}

Is200(r) ==
  /\ response[r].statusCode = 200
  /\ response[r].body = "{success:true}"

NoStoreAccess(r) ==
  /\ formLookups[r] = 0
  /\ formAnswer[r] = "unasked"
  /\ pc[r] \notin {"validateFormId", "insert"}
  /\ insertResult[r] = "none"
  /\ createdBy[r] = {}

NoDispatch(r) == posted[r] = <<>> /\ notify[r] = "none"

\* C1: a POST with a formId, a message that is not blank and a declared origin
\* the validator accepts for the form's url, whose insert succeeds, is never
\* answered by anything but 200 {success: true}, and the call has created
\* exactly one row of feedback, with the body's form id and message.
C1_AcceptedSubmissionStored ==
  \A r \in Req :
    (ValidSubmission(r) /\ OriginAccepted(r) /\ InsertSucceeded(r)) =>
      /\ response[r].statusCode \in {0, 200}
      /\ Done(r) => Is200(r)
      /\ Cardinality(createdBy[r]) = 1
      /\ \A i \in createdBy[r] :
           /\ feedback[i].form_id = BodyOf(r).formId
           /\ feedback[i].message = BodyOf(r).message
      /\ \A q \in Req \ {r} : createdBy[q] \cap createdBy[r] = {}

C1_Witness ==
  \E r \in Req :
    /\ ValidSubmission(r) /\ OriginAccepted(r) /\ InsertSucceeded(r)
    /\ DeclaredOrigin(r) = ExampleCom443
    /\ Done(r) /\ Is200(r)
    /\ \E i \in createdBy[r] : feedback[i].form_id = "f1"

\* C2 (as claimed): the 200 is returned without waiting for the dispatch:
\* the handler is never suspended on the request to the notification
\* endpoint, so while that request is pending (and it may stay so for ever)
\* the caller already has its 200.
C2_ResponseBeforeDispatchCompletes ==
  \A r \in Req : notify[r] = "pending" => Is200(r)

\* C3: once the insert has succeeded the caller is never answered an error,
\* with or without data returned by the insert and however the request to the
\* notification endpoint ends: the answer, once there, is 200 {success: true}.
C3_NotificationNeverFailsResponse ==
  \A r \in Req :
    InsertSucceeded(r) =>
      /\ response[r].statusCode \in {0, 200}
      /\ Done(r) => Is200(r)

C3_Witness ==
  /\ \E r \in Req : Done(r) /\ Is200(r) /\ notify[r] = "500"
  /\ \E r \in Req : Done(r) /\ Is200(r) /\ notify[r] = "rejected"

\* C4 (as claimed): every submission to a registered form whose declared origin
\* is not the form's url is answered 403, creates no row and posts nothing.
C4_EveryRejectedOriginIs403 ==
  \A r \in Req :
    ( /\ Done(r) /\ IsPost(r)
      /\ event[r].body.kind = "json"
      /\ ~FormIdMissing(BodyOf(r))
      /\ DeclaresOrigin(r) /\ Registered(r)
      /\ ~OriginAccepted(r) ) =>
      /\ response[r].statusCode = 403
      /\ createdBy[r] = {}
      /\ NoDispatch(r)

\* C4 (amended): a POST with a formId and a message that is not blank, whose
\* declared origin the validator does not accept for the form's url, is
\* answered 403 {error: 'Origin not allowed'} as soon as the lookup settles,
\* inserts nothing and posts nothing.
C4_RejectedOriginIs403 ==
  \A r \in Req :
    ( /\ ValidSubmission(r)
      /\ DeclaresOrigin(r) /\ Registered(r)
      /\ ~OriginAccepted(r) ) =>
      /\ pc[r] \in {"validateFormId", "done"}
      /\ Done(r) =>
           /\ response[r].statusCode = 403
           /\ response[r].body = "{error:'Origin not allowed'}"
      /\ insertResult[r] = "none"
      /\ createdBy[r] = {}
      /\ NoDispatch(r)

C4_Witness ==
  \E r \in Req :
    /\ ValidSubmission(r) /\ Registered(r)
    /\ DeclaresOrigin(r) /\ DeclaredOrigin(r) = EvilCom
    /\ formAnswer[r] = "row"
    /\ Done(r) /\ response[r].statusCode = 403

\* C5: when the form lookup finds no form, or throws, the handler answers 403
\* and never gets to the insert.
C5_FailClosed ==
  \A r \in Req :
    formAnswer[r] \in {"absent", "throws"} =>
      /\ Done(r)
      /\ response[r].statusCode = 403
      /\ response[r].body = "{error:'Origin not allowed'}"
      /\ insertResult[r] = "none"
      /\ createdBy[r] = {}

C5_Witness ==
  /\ \E r \in Req :
       /\ formAnswer[r] = "throws" /\ OriginAccepted(r)
       /\ Done(r) /\ response[r].statusCode = 403
  /\ \E r \in Req :
       /\ formAnswer[r] = "absent" /\ ~Registered(r)
       /\ Done(r) /\ response[r].statusCode = 403

\* C6: a POST whose body has no formId, or no message, or a message that is
\* empty or made of spaces only, is answered 400 {error: 'Invalid request
\* data'}, with no form lookup, no insert and no dispatch, whatever the
\* declared origin. (A body that is no JSON at all is not such a submission:
\* its parse throws.)
C6_InvalidDataIs400 ==
  \A r \in Req :
    ( /\ Started(r) /\ IsPost(r) /\ ParsedBody(r)
      /\ FormIdMissing(BodyOf(r)) \/ MessageMissingOrBlank(BodyOf(r)) ) =>
      /\ Done(r)
      /\ response[r].statusCode = 400
      /\ response[r].body = "{error:'Invalid request data'}"
      /\ NoStoreAccess(r)
      /\ NoDispatch(r)

C6_Witness ==
  /\ \E r \in Req :
       /\ IsPost(r) /\ event[r].body.kind = "json"
       /\ BodyOf(r) = [formId |-> "f1", message |-> <<" ">>]
       /\ OriginAccepted(r)
       /\ Done(r) /\ response[r].statusCode = 400
  /\ \E r \in Req :
       /\ IsPost(r) /\ event[r].body.kind = "json"
       /\ BodyOf(r) = [message |-> <<" ", "a">>]
       /\ Done(r) /\ response[r].statusCode = 400

\* C7: a POST that declares no origin and has a formId and a message that is
\* not blank makes no form lookup and goes straight to the insert, also for a
\* formId that is no registered form.
C7_NoOriginSkipsValidation ==
  \A r \in Req :
    (ValidSubmission(r) /\ ~DeclaresOrigin(r)) =>
      /\ formLookups[r] = 0
      /\ formAnswer[r] = "unasked"
      /\ pc[r] = "insert" \/ insertResult[r] # "none"

C7_Witness ==
  \E r \in Req :
    /\ ValidSubmission(r) /\ ~DeclaresOrigin(r) /\ ~Registered(r)
    /\ InsertSucceeded(r)
    /\ \E i \in createdBy[r] : feedback[i].form_id = "f2"

\* C8: when the insert fails the handler answers 500 {error: 'Internal
\* server error'} and posts nothing to the notification endpoint.
C8_InsertFailureIs500 ==
  \A r \in Req :
    insertResult[r] = "error" =>
      /\ Done(r)
      /\ response[r].statusCode = 500
      /\ response[r].body = "{error:'Internal server error'}"
      /\ NoDispatch(r)
      /\ createdBy[r] = {}

C8_Witness ==
  \E r \in Req :
    insertResult[r] = "error" /\ Done(r) /\ response[r].statusCode = 500

\* C9 (as claimed): every call whose insert succeeded has posted exactly one
\* request to the notification endpoint, carrying the formId, the message and
\* the created_at of its row, whatever data the insert returned.
C9_OneDispatchPerInsert ==
  \A r \in Req :
    (Done(r) /\ InsertSucceeded(r)) =>
      /\ Len(posted[r]) = 1
      /\ \A i \in createdBy[r] :
           posted[r][1] = [formId |-> BodyOf(r).formId,
                           message |-> BodyOf(r).message,
                           created_at |-> feedback[i].created_at]

----------------------------------------------------------------------------
\* Properties of the dispatch handler

\* the enabled rows of notification_settings for the form of the payload
EnabledFor(formId) ==
  {t \in notification_settings : t.form_id = formId /\ t.enabled = TRUE}

\* C10: when a send to one recipient has failed, a send has still been issued
\* to every enabled recipient of the form, and the failure does not leave the
\* handler: what the handler returns is one of its responses.
C10_FailedSendDoesNotStopOthers ==
  (\E e \in DOMAIN emailPromises : emailPromises[e] = "rejected") =>
    /\ notification.body.kind = "json"
    /\ DOMAIN emailPromises =
         {t.email : t \in EnabledFor(notification.body.value.formId)}
    /\ dresponse.statusCode \in {0, 200, 500}
    /\ dpc = "done" => dresponse.statusCode # 0

C10_Witness ==
  /\ dpc = "done"
  /\ dresponse.statusCode = 500
  /\ Cardinality(DOMAIN emailPromises) >= 3
  /\ Cardinality({e \in DOMAIN emailPromises : emailPromises[e] = "rejected"}) = 1
  /\ Cardinality({e \in DOMAIN emailPromises : emailPromises[e] = "ok"}) >= 2

\* C11 (as claimed): the handler waits for every send to settle: it has not
\* returned while a send it issued is still pending, also when another send
\* has already failed.
C11_ReturnsAfterAllSettled ==
  dpc = "done" => \A e \in DOMAIN emailPromises : emailPromises[e] # "pending"

\* the form of the payload; a dispatch that got as far as its form lookup has
\* a payload that parsed
PayloadForm ==
  IF "formId" \in DOMAIN notification.body.value
    THEN notification.body.value.formId
    ELSE ""

SentTo == DOMAIN emailPromises

\* C12: the sends of a dispatch go to enabled settings of the payload's form
\* only, and once the settings query has answered with its rows there is one
\* send for each of them, addressed to its email: none is left out, none goes
\* to a disabled setting or to the setting of another form.
C12_OneSendPerEnabledSetting ==
  /\ SentTo \subseteq {t.email : t \in EnabledFor(PayloadForm)}
  /\ settingsAnswer = "rows" =>
       SentTo = {t.email : t \in EnabledFor(PayloadForm)}
  /\ \A t \in notification_settings :
       (t.form_id # PayloadForm \/ ~t.enabled) => t.email \notin SentTo

C12_Witness ==
  /\ settingsAnswer = "rows"
  /\ PayloadForm = "f1"
  /\ Cardinality(SentTo) = 2
  /\ \E t \in notification_settings : t.form_id = "f1" /\ ~t.enabled
  /\ \E t \in notification_settings : t.form_id = "f3" /\ t.enabled

\* C13: a dispatch for a form without an enabled setting is answered 200 as
\* soon as the settings query has answered, and sends nothing.
C13_NoRecipientsIs200 ==
  (settingsAnswer \in {"rows", "null"} /\ EnabledFor(PayloadForm) = {}) =>
    /\ dpc = "done"
    /\ dresponse.statusCode = 200
    /\ SentTo = {}

C13_Witness ==
  /\ settingsAnswer = "rows"
  /\ PayloadForm = "f1"
  /\ EnabledFor("f1") = {}
  /\ dpc = "done" /\ dresponse.statusCode = 200

\* C14: a dispatch whose form lookup finds no form is answered 404 {error:
\* 'Form not found'} without a settings query and without a send.
C14_UnknownFormIs404 ==
  dformAnswer = "absent" =>
    /\ dpc = "done"
    /\ dresponse = [statusCode |-> 404, body |-> "{error:'Form not found'}"]
    /\ settingsAnswer = "unasked"
    /\ SentTo = {}

C14_Witness ==
  /\ dformAnswer = "absent"
  /\ PayloadForm = "f2"
  /\ dresponse.statusCode = 404

\* C19 (as claimed): the endpoint is authenticated by the bearer credential
\* of the ingestion handler: a request without it has no email sent.
C19_NoCredentialNoEmail ==
  ~notification.bearer => SentTo = {}

-----------------------------------------------------------------------------
\* Further properties of the ingestion handler

Answered200(r) == Done(r) /\ response[r].statusCode = 200

\* C15: a call that has returned has created a row if and only if it was
\* answered 200, and then exactly one; once every call made has returned, the
\* table holds as many rows as calls were answered 200, so a call answered
\* 400, 403, 405 or 500 leaves no row.
C15_RowOnlyFor200 ==
  /\ \A r \in Req :
       Done(r) =>
         /\ createdBy[r] # {} <=> response[r].statusCode = 200
         /\ Cardinality(createdBy[r]) <= 1
         /\ createdBy[r] \subseteq 1..Len(feedback)
  /\ (\A r \in Req : pc[r] \in {"idle", "done"}) =>
       Len(feedback) = Cardinality({r \in Req : Answered200(r)})

C15_Witness ==
  /\ \E r \in Req : Answered200(r) /\ notify[r] = "rejected" /\ createdBy[r] # {}
  /\ \E r \in Req : Done(r) /\ response[r].statusCode = 500 /\ createdBy[r] = {}
  /\ Len(feedback) = 1

SameSubmission(r, q) ==
  /\ r # q
  /\ ValidSubmission(r) /\ ValidSubmission(q)
  /\ event[r].body = event[q].body

\* C16: two calls with the identical valid body whose inserts succeed have each
\* created a row of their own, two distinct rows with the same form id and
\* message, whether the second call arrived after the first returned or while
\* it was suspended; and two calls with the same request that the store and
\* the notification endpoint answered alike have the same response, whatever
\* the other call did.
C16_NoDeduplication ==
  \A r, q \in Req :
    /\ (SameSubmission(r, q) /\ InsertSucceeded(r) /\ InsertSucceeded(q)) =>
         /\ Cardinality(createdBy[r]) = 1 /\ Cardinality(createdBy[q]) = 1
         /\ createdBy[r] \cap createdBy[q] = {}
         /\ createdBy[r] \cup createdBy[q] \subseteq 1..Len(feedback)
         /\ \A i \in createdBy[r], j \in createdBy[q] :
              /\ feedback[i] # feedback[j]
              /\ feedback[i].form_id = feedback[j].form_id
              /\ feedback[i].message = feedback[j].message
    /\ ( /\ Done(r) /\ Done(q)
         /\ event[r] = event[q]
         /\ formAnswer[r] = formAnswer[q]
         /\ insertResult[r] = insertResult[q]
         /\ notify[r] = notify[q] ) =>
         response[r] = response[q]

\* the two calls overlapped: the call that arrived first inserted second, and
\* both are answered 200
C16_Witness ==
  /\ SameSubmission(1, 2)
  /\ event[1] = event[2]
  /\ createdBy[1] = {2} /\ createdBy[2] = {1}
  /\ Answered200(1) /\ Answered200(2)
  /\ Len(feedback) = 2

IsOptions(r) == event[r].httpMethod = "OPTIONS"

\* C17: an OPTIONS request is answered at once 204 with the CORS headers and an
\* empty body, whatever its body (a text that is no JSON included) and its
\* origin; it makes no form lookup, no insert and no notification request.
C17_PreflightHasNoEffect ==
  \A r \in Req :
    (Started(r) /\ IsOptions(r)) =>
      /\ Done(r)
      /\ response[r] =
           [statusCode |-> 204,
            headers |-> [allowOrigin |-> IF DeclaresOrigin(r)
                                           THEN DeclaredOrigin(r)
                                           ELSE AnyOrigin,
                         allowMethods |-> "POST, OPTIONS"],
            body |-> ""]
      /\ NoStoreAccess(r)
      /\ NoDispatch(r)

C17_Witness ==
  /\ \E r \in Req :
       /\ IsOptions(r) /\ event[r].body.kind = "invalid"
       /\ DeclaresOrigin(r) /\ DeclaredOrigin(r) = EvilCom
       /\ response[r].statusCode = 204
  /\ \E r \in Req :
       /\ IsOptions(r) /\ event[r].body.kind = "json"
       /\ ~DeclaresOrigin(r)
       /\ response[r].statusCode = 204

OtherMethod(r) == Started(r) /\ event[r].httpMethod \notin {"POST", "OPTIONS"}

\* C18: a request whose method is neither POST nor OPTIONS is answered at once
\* 405 {error: 'Method not allowed'}, whatever its body: with the body of a
\* valid submission and the origin of the form, or with a text that is no
\* JSON, it makes no form lookup, no insert and no notification request.
C18_OtherMethodIs405 ==
  \A r \in Req :
    OtherMethod(r) =>
      /\ Done(r)
      /\ response[r].statusCode = 405
      /\ response[r].body = "{error:'Method not allowed'}"
      /\ NoStoreAccess(r)
      /\ NoDispatch(r)

C18_Witness ==
  /\ \E r \in Req :
       /\ OtherMethod(r)
       /\ event[r].body.kind = "json"
       /\ ~FormIdMissing(BodyOf(r)) /\ ~MessageMissingOrBlank(BodyOf(r))
       /\ OriginAccepted(r)
       /\ response[r].statusCode = 405
  /\ \E r \in Req :
       /\ OtherMethod(r) /\ event[r].body.kind = "invalid"
       /\ response[r].statusCode = 405

\* C20: no step of the ingestion handler changes or removes a row of feedback:
\* the table after a step is the table before it, or that table with rows
\* added at its end; and no step writes to notification_settings (forms is
\* never written: it is the same in every state).
C20_FeedbackOnlyGrows ==
  [][ /\ Len(feedback') >= Len(feedback)
      /\ \A i \in 1..Len(feedback) : feedback'[i] = feedback[i]
      /\ notification_settings' = notification_settings ]_vars

C20_Witness ==
  /\ Len(feedback) = 2
  /\ feedback[1].form_id = feedback[2].form_id
  /\ \A r \in Req : Done(r)

-----------------------------------------------------------------------------
\* Further properties of the dispatch handler

\* a send that did not deliver: the request was rejected, or the email function
\* answered it with a status that is not ok
SendFailed(e) == emailPromises[e] \in {"not ok", "rejected"}

\* C21 (as claimed): the handler answers 200 {success: true} only when a send
\* was issued to every enabled recipient of the form and every one of them
\* completed without failure; when a send has failed the handler answers 500
\* {error: 'Failed to send notification'}.
C21_SuccessOnlyWhenAllDelivered ==
  /\ (dpc = "done" /\ dresponse = DResp(200, "{success:true}")) =>
       /\ SentTo = {t.email : t \in EnabledFor(PayloadForm)}
       /\ \A e \in SentTo : emailPromises[e] = "ok"
  /\ (dpc = "done" /\ \E e \in SentTo : SendFailed(e)) =>
       dresponse = DResp(500, "{error:'Failed to send notification'}")

-----------------------------------------------------------------------------
\* Properties of the browser widget

\* C22 (as claimed): at most one submission of the widget is in flight at a
\* time, and while one is in flight the submit button is disabled, whatever
\* the order of submit, cancel, close, backdrop click, reset timer and reopen.
C22_OneSubmissionInFlight ==
  /\ inFlight <= 1
  /\ inFlight >= 1 => disabled

====
